---- MODULE Spec2Model ----
(***************************************************************************)
(* Model of mom.codec (src/mom/codec/__init__.py): the conversions between *)
(* byte strings, non-negative integers, decimal / binary text and the      *)
(* OpenSSL MPI framing.                                                     *)
(*                                                                         *)
(* A byte string is a sequence of integers 0..255, a text string is a      *)
(* sequence of one-character strings.  Every function of the module is an  *)
(* operator computed the way the code computes it; one action per function *)
(* calls it either on a fresh input or on the result of the previous call, *)
(* and records the call (fn, arg, blocksize, ret, err) and the call before *)
(* it (pfn, parg, pblocksize).                                              *)
(*                                                                         *)
(* Python integers are unbounded; the model-checker's are 32-bit signed.    *)
(* Inputs are therefore restricted to integers below 2^31 and to byte       *)
(* strings whose value is below 2^31 (FitsInt); left shifts and masks are   *)
(* written so that no intermediate value leaves that range.                 *)
(***************************************************************************)
EXTENDS Integers, Sequences, FiniteSets, TLC

VARIABLES fn, arg, blocksize, ret, err, pfn, parg, pblocksize

vars == <<fn, arg, blocksize, ret, err, pfn, parg, pblocksize>>

\* ---------------------------------------------------------------- bounds
MaxLen == 4
MaxBlock == 4

\* ---------------------------------------------------------------- inputs
ByteVals == {0, 1, 5, 128, 255}

RECURSIVE SeqsUpTo(_, _)
SeqsUpTo(S, n) ==
    IF n = 0 THEN {<<>>}
    ELSE LET shorter == SeqsUpTo(S, n - 1)
         IN  shorter \cup {Append(s, x) : s \in {t \in shorter : Len(t) = n - 1}, x \in S}

ByteStrings == SeqsUpTo(ByteVals, MaxLen)

\* number of leading zero bytes of a byte string
RECURSIVE LeadingZeros(_)
LeadingZeros(s) ==
    IF s = <<>> \/ Head(s) # 0 THEN 0 ELSE 1 + LeadingZeros(Tail(s))

\* the value of the byte string is below 2^31
FitsInt(s) ==
    LET sig == Len(s) - LeadingZeros(s)
    IN  \/ sig <= 3
        \/ sig = 4 /\ s[LeadingZeros(s) + 1] < 128

IntInputs == {0, 1, 5, 127, 128, 255, 256, 32767, 32768, 65535, 65536,
              8388608, 16777215, 16777216, 2147483647}

DigitChars == {"0", "2", "5", "6"}

DecStrings == SeqsUpTo(DigitChars, MaxLen)

BinStrings == {<<>>, <<"0","0","0","0","0","0","0","0">>,
               <<"1","0","0","0","0","0","0","1">>,
               <<"0","0","0","0","0","1","0","1","1","1","1","1","1","1","1","1">>}

MpiPrefixes == {<<0,0,0,0>>, <<0,0,0,1>>, <<0,0,0,2>>, <<0,0,0,3>>, <<0,0,1,0>>}

MpiStrings ==
    {p \o b : p \in MpiPrefixes, b \in {t \in ByteStrings : FitsInt(t)}}
        \cup {<<>>, <<0,0>>}

\* ---------------------------------------------------------------- helpers
Zeros(n) == [i \in 1..n |-> 0]

Repeat(c, n) == [i \in 1..n |-> c]

\* Python slice s[i:] for a 0-based index i
SliceFrom(s, i) == IF i >= Len(s) THEN <<>> ELSE SubSeq(s, i + 1, Len(s))

\* struct.pack('>I', num & 0xffffffff)
Pack32(num) ==
    << (num \div 16777216) % 256, (num \div 65536) % 256,
       (num \div 256) % 256, num % 256 >>

\* struct.unpack('>I', w)[0]
Unpack32(w) == ((w[1] * 256 + w[2]) * 256 + w[3]) * 256 + w[4]

\* num >> 32
Shr32(num) == (num \div 65536) \div 65536

\* acc << 32
Shl32(acc) == (acc * 65536) * 65536

\* the while loop of long_to_bytes
RECURSIVE PackWords(_)
PackWords(num) ==
    IF num > 0 THEN PackWords(Shr32(num)) \o Pack32(num) ELSE <<>>

\* the for/else loop of long_to_bytes: index of the first non-zero byte,
\* or -1 when the loop runs to its end without break
RECURSIVE FirstNonZeroFrom(_, _)
FirstNonZeroFrom(s, i) ==
    IF i >= Len(s) THEN -1
    ELSE IF s[i + 1] # 0 THEN i
    ELSE FirstNonZeroFrom(s, i + 1)

\* long_to_bytes with the test `len(s) % blocksize` left out of the padding
long_to_bytes_alwayspad(num, bsize) ==
    LET packed == PackWords(num)
        i == FirstNonZeroFrom(packed, 0)
        s == IF i = -1 THEN <<0>> ELSE SliceFrom(packed, i)
    IN  IF bsize > 0
        THEN Zeros(bsize - (Len(s) % bsize)) \o s
        ELSE s

\* long_to_bytes whose strip cuts one byte too many, s = s[i+1:]
long_to_bytes_stripmore(num, bsize) ==
    LET packed == PackWords(num)
        i == FirstNonZeroFrom(packed, 0)
        s == IF i = -1 THEN <<>> ELSE SliceFrom(packed, i + 1)
    IN  IF bsize > 0 /\ Len(s) % bsize # 0
        THEN Zeros(bsize - (Len(s) % bsize)) \o s
        ELSE s

long_to_bytes(num, bsize) ==
    LET packed == PackWords(num)
        i == FirstNonZeroFrom(packed, 0)
        s == IF i = -1 THEN <<0>> ELSE SliceFrom(packed, i)
    IN  IF bsize > 0 /\ Len(s) % bsize # 0
        THEN Zeros(bsize - (Len(s) % bsize)) \o s
        ELSE s

\* the for loop of bytes_to_long over 4-byte words
RECURSIVE FoldWords(_, _)
FoldWords(acc, s) ==
    IF s = <<>> THEN acc
    ELSE FoldWords(Shl32(acc) + Unpack32(SubSeq(s, 1, 4)), SliceFrom(s, 4))

\* bytes_to_long whose loop starts at the second word, range(4, length, 4)
bytes_to_long_skipword(byte_string) ==
    LET length == Len(byte_string)
        padded == IF length % 4 # 0
                  THEN Zeros(4 - (length % 4)) \o byte_string
                  ELSE byte_string
    IN  FoldWords(0, SliceFrom(padded, 4))

bytes_to_long(byte_string) ==
    LET length == Len(byte_string)
        padded == IF length % 4 # 0
                  THEN Zeros(4 - (length % 4)) \o byte_string
                  ELSE byte_string
    IN  FoldWords(0, padded)

\* ---------------------------------------------------------------- decimal codec
DecDigits == <<"0", "1", "2", "3", "4", "5", "6", "7", "8", "9">>

DigitVal(c) == CHOOSE d \in 0..9 : DecDigits[d + 1] = c

\* bytes(long_val): the base-10 rendering of a long
RECURSIVE LongToStr(_)
LongToStr(n) ==
    IF n < 10 THEN <<DecDigits[n + 1]>>
    ELSE Append(LongToStr(n \div 10), DecDigits[(n % 10) + 1])

\* long(encoded): the value of a string of decimal digits; the empty
\* string is not a literal and raises ValueError
RECURSIVE ParseDigits(_, _)
ParseDigits(acc, s) ==
    IF s = <<>> THEN acc
    ELSE ParseDigits(acc * 10 + DigitVal(Head(s)), Tail(s))

long(encoded) ==
    IF encoded = <<>>
    THEN [err |-> "ValueError", val |-> 0]
    ELSE [err |-> "", val |-> ParseDigits(0, encoded)]

\* the counting loops of decimal_encode and decimal_decode: the number of
\* leading items equal to `zero`
RECURSIVE CountPadding(_, _)
CountPadding(s, zero) ==
    IF s = <<>> THEN 0
    ELSE IF Head(s) = zero THEN 1 + CountPadding(Tail(s), zero)
    ELSE 0

\* decimal_encode without the zero padding
decimal_encode_nopad(byte_string) ==
    LET long_val == bytes_to_long(byte_string)
    IN  IF long_val # 0 THEN LongToStr(long_val) ELSE <<>>

decimal_encode(byte_string) ==
    LET padding_count == CountPadding(byte_string, 0)
        zero_padding == Repeat("0", padding_count)
        long_val == bytes_to_long(byte_string)
    IN  IF long_val # 0
        THEN zero_padding \o LongToStr(long_val)
        ELSE zero_padding

decimal_decode(encoded) ==
    LET padding_count == CountPadding(encoded, "0")
        zero_padding == Zeros(padding_count)
        parsed == long(encoded)
    IN  IF parsed.err # "" THEN [err |-> parsed.err, val |-> <<>>]
        ELSE IF parsed.val = 0 THEN [err |-> "", val |-> zero_padding]
        ELSE [err |-> "", val |-> zero_padding \o long_to_bytes(parsed.val, 0)]

\* ---------------------------------------------------------------- binary codec
HexDigits == <<"0", "1", "2", "3", "4", "5", "6", "7",
               "8", "9", "a", "b", "c", "d", "e", "f">>

HexChars == {HexDigits[i] : i \in 1..16} \cup {"A", "B", "C", "D", "E", "F"}

\* binascii.b2a_hex
RECURSIVE hex_encode(_)
hex_encode(byte_string) ==
    IF byte_string = <<>> THEN <<>>
    ELSE <<HexDigits[(Head(byte_string) \div 16) + 1],
           HexDigits[(Head(byte_string) % 16) + 1]>> \o hex_encode(Tail(byte_string))

HexVal(c) ==
    CASE c = "A" -> 10 [] c = "B" -> 11 [] c = "C" -> 12
      [] c = "D" -> 13 [] c = "E" -> 14 [] c = "F" -> 15
      [] OTHER -> (CHOOSE i \in 0..15 : HexDigits[i + 1] = c)

RECURSIVE HexPairs(_)
HexPairs(s) ==
    IF s = <<>> THEN <<>>
    ELSE <<HexVal(s[1]) * 16 + HexVal(s[2])>> \o HexPairs(SliceFrom(s, 2))

\* binascii.a2b_hex
hex_decode(encoded) ==
    IF Len(encoded) % 2 # 0 \/ \E i \in 1..Len(encoded) : encoded[i] \notin HexChars
    THEN [err |-> "TypeError", val |-> <<>>]
    ELSE [err |-> "", val |-> HexPairs(encoded)]

\* the table with the entry of '8' mistyped as that of '9'
HEX_TO_BIN_LOOKUP_typo ==
    [c \in HexChars |->
        CASE c = "0" -> <<"0","0","0","0">> [] c = "1" -> <<"0","0","0","1">>
          [] c = "2" -> <<"0","0","1","0">> [] c = "3" -> <<"0","0","1","1">>
          [] c = "4" -> <<"0","1","0","0">> [] c = "5" -> <<"0","1","0","1">>
          [] c = "6" -> <<"0","1","1","0">> [] c = "7" -> <<"0","1","1","1">>
          [] c = "8" -> <<"1","0","0","1">> [] c = "9" -> <<"1","0","0","1">>
          [] c \in {"a", "A"} -> <<"1","0","1","0">>
          [] c \in {"b", "B"} -> <<"1","0","1","1">>
          [] c \in {"c", "C"} -> <<"1","1","0","0">>
          [] c \in {"d", "D"} -> <<"1","1","0","1">>
          [] c \in {"e", "E"} -> <<"1","1","1","0">>
          [] c \in {"f", "F"} -> <<"1","1","1","1">>]

HEX_TO_BIN_LOOKUP ==
    [c \in HexChars |->
        CASE c = "0" -> <<"0","0","0","0">> [] c = "1" -> <<"0","0","0","1">>
          [] c = "2" -> <<"0","0","1","0">> [] c = "3" -> <<"0","0","1","1">>
          [] c = "4" -> <<"0","1","0","0">> [] c = "5" -> <<"0","1","0","1">>
          [] c = "6" -> <<"0","1","1","0">> [] c = "7" -> <<"0","1","1","1">>
          [] c = "8" -> <<"1","0","0","0">> [] c = "9" -> <<"1","0","0","1">>
          [] c \in {"a", "A"} -> <<"1","0","1","0">>
          [] c \in {"b", "B"} -> <<"1","0","1","1">>
          [] c \in {"c", "C"} -> <<"1","1","0","0">>
          [] c \in {"d", "D"} -> <<"1","1","0","1">>
          [] c \in {"e", "E"} -> <<"1","1","1","0">>
          [] c \in {"f", "F"} -> <<"1","1","1","1">>]

Bits == {"0", "1"}

BIN_TO_HEX_LOOKUP ==
    [q \in [1..4 -> Bits] |->
        CASE q = <<"0","0","0","0">> -> "0" [] q = <<"0","0","0","1">> -> "1"
          [] q = <<"0","0","1","0">> -> "2" [] q = <<"0","0","1","1">> -> "3"
          [] q = <<"0","1","0","0">> -> "4" [] q = <<"0","1","0","1">> -> "5"
          [] q = <<"0","1","1","0">> -> "6" [] q = <<"0","1","1","1">> -> "7"
          [] q = <<"1","0","0","0">> -> "8" [] q = <<"1","0","0","1">> -> "9"
          [] q = <<"1","0","1","0">> -> "a" [] q = <<"1","0","1","1">> -> "b"
          [] q = <<"1","1","0","0">> -> "c" [] q = <<"1","1","0","1">> -> "d"
          [] q = <<"1","1","1","0">> -> "e" [] q = <<"1","1","1","1">> -> "f"]

\* ''.join(f[x] for x in s)
RECURSIVE JoinMap(_, _)
JoinMap(f, s) ==
    IF s = <<>> THEN <<>> ELSE f[Head(s)] \o JoinMap(f, Tail(s))

bin_encode(byte_string) == JoinMap(HEX_TO_BIN_LOOKUP, hex_encode(byte_string))

\* mom.itertools.group(s, 4): consecutive chunks of n items
RECURSIVE group(_, _)
group(s, n) ==
    IF s = <<>> THEN <<>>
    ELSE IF Len(s) <= n THEN <<s>>
    ELSE <<SubSeq(s, 1, n)>> \o group(SliceFrom(s, n), n)

bin_decode(binary_string) ==
    LET chunks == group(binary_string, 4)
    IN  IF \E i \in 1..Len(chunks) : chunks[i] \notin DOMAIN BIN_TO_HEX_LOOKUP
        THEN [err |-> "KeyError", val |-> <<>>]
        ELSE hex_decode([i \in 1..Len(chunks) |-> BIN_TO_HEX_LOOKUP[chunks[i]]])

\* ---------------------------------------------------------------- MPI framer
\* mom.builtins.long_bit_length: 0 for 0, else the position of the
\* highest set bit plus one
RECURSIVE long_bit_length(_)
long_bit_length(num) ==
    IF num = 0 THEN 0 ELSE 1 + long_bit_length(num \div 2)

\* mom.builtins.long_byte_count: ceil(bit_length / 8), 0 for 0
long_byte_count(num) == (long_bit_length(num) + 7) \div 8

\* mom._types.bytearray.long_to_bytearray: the minimal big-endian bytes
\* of num, no byte at all for 0
RECURSIVE long_to_bytearray(_)
long_to_bytearray(num) ==
    IF num = 0 THEN <<>>
    ELSE Append(long_to_bytearray(num \div 256), num % 256)

\* mom._types.bytearray.bytearray_to_long: the big-endian value
RECURSIVE FoldBytes(_, _)
FoldBytes(acc, s) ==
    IF s = <<>> THEN acc ELSE FoldBytes(acc * 256 + Head(s), Tail(s))

bytearray_to_long(byte_array) == FoldBytes(0, byte_array)

bytes_to_bytearray(byte_string) == byte_string

bytearray_to_bytes(byte_array) == byte_array

bytearray_concat(a, b) == a \o b

bytearray_create_zeros(n) == Zeros(n)

\* long_to_mpi that never adds the extra zero byte
long_to_mpi_noext(num) ==
    LET byte_array == long_to_bytearray(num)
        ext == 0
        length == long_byte_count(num) + ext
        framed == bytearray_concat(bytearray_create_zeros(4 + ext), byte_array)
        prefix == << (length \div 16777216) % 256, (length \div 65536) % 256,
                     (length \div 256) % 256, length % 256 >>
    IN  bytearray_to_bytes([i \in 1..Len(framed) |->
                               IF i <= 4 THEN prefix[i] ELSE framed[i]])

\* long_to_mpi whose length prefix leaves out the extra zero byte
long_to_mpi_shortlen(num) ==
    LET byte_array == long_to_bytearray(num)
        ext == IF long_bit_length(num) % 8 = 0 THEN 1 ELSE 0
        length == long_byte_count(num)
        framed == bytearray_concat(bytearray_create_zeros(4 + ext), byte_array)
        prefix == << (length \div 16777216) % 256, (length \div 65536) % 256,
                     (length \div 256) % 256, length % 256 >>
    IN  bytearray_to_bytes([i \in 1..Len(framed) |->
                               IF i <= 4 THEN prefix[i] ELSE framed[i]])

long_to_mpi(num) ==
    LET byte_array == long_to_bytearray(num)
        ext == IF long_bit_length(num) % 8 = 0 THEN 1 ELSE 0
        length == long_byte_count(num) + ext
        framed == bytearray_concat(bytearray_create_zeros(4 + ext), byte_array)
        prefix == << (length \div 16777216) % 256, (length \div 65536) % 256,
                     (length \div 256) % 256, length % 256 >>
    IN  bytearray_to_bytes([i \in 1..Len(framed) |->
                               IF i <= 4 THEN prefix[i] ELSE framed[i]])

\* mpi_to_long that tests the last byte of the prefix instead of byte 4
mpi_to_long_idx3(mpi_byte_string) ==
    IF Len(mpi_byte_string) < 4
    THEN [err |-> "IndexError", val |-> 0]
    ELSE IF (mpi_byte_string[4] \div 128) % 2 # 0
    THEN [err |-> "AssertionError", val |-> 0]
    ELSE [err |-> "",
          val |-> bytearray_to_long(bytes_to_bytearray(SliceFrom(mpi_byte_string, 4)))]

\* mpi_to_long that converts the bytes from index 5 on
mpi_to_long_skip(mpi_byte_string) ==
    IF Len(mpi_byte_string) < 5
    THEN [err |-> "IndexError", val |-> 0]
    ELSE IF (mpi_byte_string[5] \div 128) % 2 # 0
    THEN [err |-> "AssertionError", val |-> 0]
    ELSE [err |-> "",
          val |-> bytearray_to_long(bytes_to_bytearray(SliceFrom(mpi_byte_string, 5)))]

mpi_to_long(mpi_byte_string) ==
    IF Len(mpi_byte_string) < 5
    THEN [err |-> "IndexError", val |-> 0]
    ELSE IF (mpi_byte_string[5] \div 128) % 2 # 0
    THEN [err |-> "AssertionError", val |-> 0]
    ELSE [err |-> "",
          val |-> bytearray_to_long(bytes_to_bytearray(SliceFrom(mpi_byte_string, 4)))]

\* ---------------------------------------------------------------- state machine
Init ==
    /\ fn = ""
    /\ arg = <<>>
    /\ blocksize = 0
    /\ ret = <<>>
    /\ err = ""
    /\ pfn = ""
    /\ parg = <<>>
    /\ pblocksize = 0

OutKind ==
    [f \in {"long_to_bytes", "decimal_decode", "bin_decode"} |-> "bytes"]
    @@ [f \in {"bytes_to_long", "mpi_to_long"} |-> "int"]
    @@ [f \in {"decimal_encode"} |-> "dec"]
    @@ [f \in {"bin_encode"} |-> "bin"]
    @@ [f \in {"long_to_mpi"} |-> "mpi"]

\* the result of the previous call, when it can be passed on as a `kind`
Chained(kind) ==
    IF fn # "" /\ err = "" /\ OutKind[fn] = kind THEN {ret} ELSE {}

Call(name, x, bs, result, error, chain) ==
    /\ fn' = name
    /\ arg' = x
    /\ blocksize' = bs
    /\ ret' = result
    /\ err' = error
    /\ pfn' = IF chain THEN fn ELSE ""
    /\ parg' = IF chain THEN arg ELSE <<>>
    /\ pblocksize' = IF chain THEN blocksize ELSE 0

\* the arguments a call may take: any input of the function when no call
\* has been made yet, the result of the previous call afterwards
Args(kind, fresh) == IF fn = "" THEN fresh ELSE Chained(kind)

LongToBytes ==
    \E num \in Args("int", IntInputs) :
      \E bs \in 0..MaxBlock :
        Call("long_to_bytes", num, bs, long_to_bytes(num, bs), "", fn # "")

BytesToLong ==
    \E b \in {x \in Args("bytes", ByteStrings) : FitsInt(x)} :
      Call("bytes_to_long", b, 0, bytes_to_long(b), "", fn # "")

DecimalEncode ==
    \E b \in {x \in Args("bytes", ByteStrings) : FitsInt(x)} :
      Call("decimal_encode", b, 0, decimal_encode(b), "", fn # "")

DecimalDecode ==
    \E s \in Args("dec", DecStrings) :
      LET r == decimal_decode(s)
      IN  Call("decimal_decode", s, 0, r.val, r.err, fn # "")

BinEncode ==
    \E b \in Args("bytes", ByteStrings) :
      Call("bin_encode", b, 0, bin_encode(b), "", fn # "")

BinDecode ==
    \E s \in Args("bin", BinStrings) :
      LET r == bin_decode(s)
      IN  Call("bin_decode", s, 0, r.val, r.err, fn # "")

LongToMpi ==
    \E num \in Args("int", IntInputs) :
      Call("long_to_mpi", num, 0, long_to_mpi(num), "", fn # "")

MpiToLong ==
    \E m \in Args("mpi", MpiStrings) :
      LET r == mpi_to_long(m)
      IN  Call("mpi_to_long", m, 0, r.val, r.err, fn # "")

Next ==
    \/ LongToBytes
    \/ BytesToLong
    \/ DecimalEncode
    \/ DecimalDecode
    \/ BinEncode
    \/ BinDecode
    \/ LongToMpi
    \/ MpiToLong

Spec == Init /\ [][Next]_vars

\* ---------------------------------------------------------------- properties
\* reference definitions the properties are stated with

\* the big-endian value of a byte string, as a positional sum
RECURSIVE BigEndianValue(_)
BigEndianValue(s) ==
    IF s = <<>> THEN 0
    ELSE (IF Head(s) = 0 THEN 0 ELSE Head(s) * 256 ^ (Len(s) - 1))
         + BigEndianValue(Tail(s))

\* ceil(bit_length(n) / 8) for 0 < n < 2^31, and 0 for n = 0
NumBytes(n) ==
    IF n = 0 THEN 0
    ELSE IF n < 256 THEN 1
    ELSE IF n < 65536 THEN 2
    ELSE IF n < 16777216 THEN 3
    ELSE 4

\* bit_length(n) is a multiple of 8, for 0 <= n < 2^31
BitLengthMultipleOf8(n) ==
    \/ n = 0
    \/ n \in 128..255
    \/ n \in 32768..65535
    \/ n \in 8388608..16777215

\* b without its leading zero bytes
RECURSIVE StripLeadingZeros(_)
StripLeadingZeros(b) ==
    IF b # <<>> /\ Head(b) = 0 THEN StripLeadingZeros(Tail(b)) ELSE b

\* Python slice s[i:j] for 0-based indices 0 <= i, 0 <= j
PySlice(s, i, j) ==
    LET hi == IF j < Len(s) THEN j ELSE Len(s)
    IN  IF i >= hi THEN <<>> ELSE SubSeq(s, i + 1, hi)

\* the value of the 4-byte big-endian length prefix of an MPI
PrefixLength(m) == BigEndianValue(SubSeq(m, 1, 4))

\* C1: bytes_to_long(long_to_bytes(n, blocksize)) = n for every n >= 0 and
\* every blocksize >= 0; the padding never changes the decoded value.
C1_LongBytesRoundTrip ==
    (fn = "bytes_to_long" /\ pfn = "long_to_bytes") => ret = parg

C1_Witness ==
    /\ fn = "bytes_to_long" /\ pfn = "long_to_bytes"
    /\ parg > 255 /\ pblocksize > 0 /\ Len(arg) > NumBytes(parg)
    /\ ret = parg

\* C2: long_to_bytes(n, blocksize) is the big-endian encoding of n; its
\* length is ceil(bit_length(n)/8) for n > 0 and 1 for n = 0 when blocksize
\* is 0, and the smallest multiple of blocksize that holds this minimal
\* encoding when blocksize > 0, the added bytes being leading zero bytes.
C2_LongToBytesLength ==
    fn = "long_to_bytes" =>
        LET min == IF arg = 0 THEN 1 ELSE NumBytes(arg)
            want == IF blocksize = 0 THEN min
                    ELSE ((min + blocksize - 1) \div blocksize) * blocksize
        IN  /\ Len(ret) = want
            /\ BigEndianValue(ret) = arg
            /\ \A i \in 1..(want - min) : ret[i] = 0
            /\ arg > 0 => ret[want - min + 1] # 0
            /\ (arg = 0 /\ blocksize = 0) => ret = <<0>>
            /\ (arg = 0 /\ blocksize = 4) => ret = <<0, 0, 0, 0>>

C2_Witness ==
    /\ fn = "long_to_bytes" /\ pfn = ""
    /\ arg = 65536 /\ blocksize = 3 /\ ret = <<1, 0, 0>>

\* C3: decimal_decode(decimal_encode(b)) returns b for every byte string
\* b, the empty one included, and neither call fails.
C3_DecimalRoundTrip ==
    (fn = "decimal_decode" /\ pfn = "decimal_encode") =>
        (err = "" /\ ret = parg)

\* C4 as stated: decimal_encode of 00 00 05 is "0005" and decimal_decode
\* of "0005" is 00 00 05.
C4_Original ==
    /\ (fn = "decimal_encode" /\ arg = <<0, 0, 5>>) => ret = <<"0", "0", "0", "5">>
    /\ (fn = "decimal_decode" /\ arg = <<"0", "0", "0", "5">>) =>
           (err = "" /\ ret = <<0, 0, 5>>)

\* C4 amended: decimal_encode of 00 00 05 is the three-character string
\* "005" (one '0' per leading zero byte, then "5"), decimal_decode of "005"
\* is 00 00 05, and decimal_decode of "0005" is the four bytes 00 00 00 05.
C4_DecimalExample ==
    /\ (fn = "decimal_encode" /\ arg = <<0, 0, 5>>) => ret = <<"0", "0", "5">>
    /\ (fn = "decimal_decode" /\ arg = <<"0", "0", "5">>) =>
           (err = "" /\ ret = <<0, 0, 5>>)
    /\ (fn = "decimal_decode" /\ arg = <<"0", "0", "0", "5">>) =>
           (err = "" /\ ret = <<0, 0, 0, 5>>)

C4_Witness ==
    /\ fn = "decimal_decode" /\ pfn = "decimal_encode"
    /\ parg = <<0, 0, 5>> /\ arg = <<"0", "0", "5">>
    /\ ret = <<0, 0, 5>>

\* C5: mpi_to_long(long_to_mpi(n)) = n for every n >= 0, and the decode
\* does not trip its high-bit assertion.
C5_MpiRoundTrip ==
    (fn = "mpi_to_long" /\ pfn = "long_to_mpi") => (err = "" /\ ret = parg)

C5_Witness ==
    /\ fn = "mpi_to_long" /\ pfn = "long_to_mpi"
    /\ parg = 65535 /\ err = "" /\ ret = 65535

\* C6: long_to_mpi(n) is a well-formed MPI: the prefix holds
\* length = byte_count(n) + extra, exactly length bytes follow it, the first
\* of them has its most significant bit clear, and extra is 1 exactly when
\* bit_length(n) is a multiple of 8.
C6_MpiWellFormed ==
    fn = "long_to_mpi" =>
        LET length == PrefixLength(ret)
            extra == IF BitLengthMultipleOf8(arg) THEN 1 ELSE 0
        IN  /\ Len(ret) >= 5
            /\ length = NumBytes(arg) + extra
            /\ Len(ret) = 4 + length
            /\ ret[5] < 128
            /\ extra = 1 => ret[5] = 0
            /\ StripLeadingZeros(SubSeq(ret, 5 + extra, Len(ret))) =
                   SubSeq(ret, 5 + extra, Len(ret))
            /\ arg = 255 => ret = <<0, 0, 0, 2, 0, 255>>

C6_Witness ==
    /\ fn = "long_to_mpi" /\ arg = 255
    /\ PrefixLength(ret) = 2 /\ ret[5] = 0 /\ Len(ret) = 6

\* C7: mpi_to_long fails with an assertion error, and returns no integer,
\* exactly when the byte at index 4 of its argument has bit 0x80 set.
C7_MpiHighBit ==
    (fn = "mpi_to_long" /\ Len(arg) >= 5) =>
        /\ arg[5] >= 128 => err = "AssertionError"
        /\ arg[5] < 128 => err = ""

C7_Witness ==
    /\ fn = "mpi_to_long" /\ Len(arg) > 5 /\ arg[5] >= 128
    /\ err = "AssertionError"

\* C8 as stated: long_to_bytes(bytes_to_long(b)) is b without its leading
\* zero bytes, for every byte string b.
C8_Original ==
    (fn = "long_to_bytes" /\ pfn = "bytes_to_long" /\ blocksize = 0) =>
        ret = StripLeadingZeros(parg)

\* C8 amended: long_to_bytes(bytes_to_long(b)) is b without its leading
\* zero bytes, except that it is the single byte 0x00 when b is empty or
\* holds zero bytes only; it is b whenever b is not empty and has no leading
\* zero byte.
C8_StripsLeadingZeros ==
    (fn = "long_to_bytes" /\ pfn = "bytes_to_long" /\ blocksize = 0) =>
        /\ ret = IF StripLeadingZeros(parg) = <<>> THEN <<0>>
                 ELSE StripLeadingZeros(parg)
        /\ (parg # <<>> /\ Head(parg) # 0) => ret = parg

C8_Witness ==
    /\ fn = "long_to_bytes" /\ pfn = "bytes_to_long" /\ blocksize = 0
    /\ parg = <<0, 0, 5, 0>> /\ ret = <<5, 0>>

\* C9: bin_encode(b) has 8 * len(b) characters '0'/'1', each byte rendered
\* most significant bit first, and bin_decode(bin_encode(b)) = b.
C9_BinRoundTrip ==
    /\ fn = "bin_encode" =>
           /\ Len(ret) = 8 * Len(arg)
           /\ \A i \in 1..Len(arg) : \A j \in 1..8 :
                  ret[8 * (i - 1) + j] =
                      IF (arg[i] \div 2 ^ (8 - j)) % 2 = 1 THEN "1" ELSE "0"
    /\ (fn = "bin_decode" /\ pfn = "bin_encode") => (err = "" /\ ret = parg)

C9_Witness ==
    /\ fn = "bin_decode" /\ pfn = "bin_encode"
    /\ parg = <<0, 128, 0>> /\ Len(arg) = 24 /\ ret = parg

\* C10 as stated: mpi_to_long returns the value of the bytes at indices 5
\* up to 4 + length, length being the value of the prefix.
C10_Original ==
    (fn = "mpi_to_long" /\ err = "") =>
        ret = BigEndianValue(PySlice(arg, 5, 4 + PrefixLength(arg)))

\* C10 amended: for an MPI byte string that passes the high-bit check,
\* mpi_to_long returns the big-endian value of all the bytes from index 4 to
\* the end of its argument; the length prefix is not consulted.
C10_MpiValue ==
    (fn = "mpi_to_long" /\ err = "") =>
        ret = BigEndianValue(PySlice(arg, 4, Len(arg)))

C10_Witness ==
    /\ fn = "mpi_to_long" /\ err = ""
    /\ arg = <<0, 0, 0, 1, 5, 1>> /\ ret = 1281
====
